---- MODULE Spec2Model ----
(***************************************************************************)
(* CodeExecutionSandbox.execute of src/src/index.ts: one execution of a    *)
(* script inside an isolate, with the capability bridge, the wall-clock    *)
(* timer, the settle-once flag and the outcome formatter.                  *)
(*                                                                         *)
(* Host callbacks (timer, capability completion, success / failure         *)
(* reference, continuation of the setup) run one at a time on the host     *)
(* event loop: each is one action.  The script runs inside the isolate,    *)
(* on its own thread: each of its statements is one action.                *)
(***************************************************************************)
EXTENDS Integers, Sequences, FiniteSets, TLC

\* Largest number of capability call statements in a script body.
MaxCalls == 2

(***************************************************************************)
(* JavaScript values.  Every kind has its own field names, so that values  *)
(* of different kinds are comparable.                                      *)
(***************************************************************************)
Undefined == [t |-> "undefined"]
Null == [t |-> "null"]
Str(s) == [t |-> "string", s |-> s]
Num(n) == [t |-> "number", n |-> n]
Bool(b) == [t |-> "boolean", b |-> b]
\* new Error(m)
Err(m) == [t |-> "error", message |-> m]
\* An object literal: its properties in insertion order, <<key, value>> each.
Obj(props) == [t |-> "object", props |-> props]
\* An array.
Arr(items) == [t |-> "array", items |-> items]

\* typeof v === 'string'
IsString(v) == v.t = "string"

\* String(v), for the values a script or a capability can throw.
JSString(v) ==
  CASE v.t = "string" -> v.s
    [] v.t = "error" -> IF v.message = "" THEN "Error" ELSE "Error: " \o v.message
    [] v.t = "number" -> ToString(v.n)
    [] v.t = "boolean" -> IF v.b THEN "true" ELSE "false"
    [] v.t = "undefined" -> "undefined"
    [] v.t = "null" -> "null"
    [] OTHER -> "[object Object]"

\* The value of v.message (undefined when v has no such property).
MessageOf(v) == IF v.t = "error" THEN Str(v.message) ELSE Undefined

\* ToBoolean(v)
Truthy(v) ==
  CASE v.t = "string" -> v.s # ""
    [] v.t = "number" -> v.n # 0
    [] v.t = "boolean" -> v.b
    [] v.t = "undefined" -> FALSE
    [] v.t = "null" -> FALSE
    [] OTHER -> TRUE

RECURSIVE JSONstringify(_), JSONitems(_, _), JSONprops(_, _)
\* JSON.stringify(v); at the top level undefined renders, inside a template
\* literal, as the text undefined.
JSONstringify(v) ==
  CASE v.t = "string" -> "\"" \o v.s \o "\""
    [] v.t = "number" -> ToString(v.n)
    [] v.t = "boolean" -> IF v.b THEN "true" ELSE "false"
    [] v.t = "null" -> "null"
    [] v.t = "undefined" -> "undefined"
    [] v.t = "error" -> "{}"
    [] v.t = "array" -> "[" \o JSONitems(v.items, 1) \o "]"
    [] v.t = "object" -> "{" \o JSONprops(v.props, TRUE) \o "}"

\* The elements of an array from index i on; undefined renders as null.
JSONitems(items, i) ==
  IF i > Len(items) THEN ""
  ELSE (IF i > 1 THEN "," ELSE "")
       \o (IF items[i].t = "undefined" THEN "null" ELSE JSONstringify(items[i]))
       \o JSONitems(items, i + 1)

\* The properties of an object; a property whose value is undefined is left out.
JSONprops(props, first) ==
  IF props = <<>> THEN ""
  ELSE IF Head(props)[2].t = "undefined" THEN JSONprops(Tail(props), first)
  ELSE (IF first THEN "" ELSE ",")
       \o "\"" \o Head(props)[1] \o "\":" \o JSONstringify(Head(props)[2])
       \o JSONprops(Tail(props), FALSE)

\* obj[key] of an object literal (undefined when absent or obj is no object).
RECURSIVE GetProp(_, _)
GetProp(props, key) ==
  IF props = <<>> THEN Undefined
  ELSE IF Head(props)[1] = key THEN Head(props)[2]
  ELSE GetProp(Tail(props), key)

(***************************************************************************)
(* The outcome formatter.                                                  *)
(***************************************************************************)
\* The separator between a call and its outcome in a trace line: a space, the
\* rightwards arrow (U+2192, written here as its escape, the strings of the
\* model being ASCII) and a space.
Arrow == " \\u2192 "

\* A trace line whose outcome is always rendered as JSON.
TraceLineQuoted(entry) ==
  "  " \o entry.fn \o "(" \o JSONstringify(Arr(entry.args)) \o ")" \o Arrow
  \o JSONstringify(entry.result)

\* One trace line: `  ${entry.fn}(${argsStr}) <arrow> ${resultStr}`
TraceLine(entry) ==
  "  " \o entry.fn \o "(" \o JSONstringify(Arr(entry.args)) \o ")" \o Arrow
  \o (IF IsString(entry.result) THEN entry.result.s ELSE JSONstringify(entry.result))

RECURSIVE TraceLines(_)
TraceLines(log) ==
  IF log = <<>> THEN <<>> ELSE <<TraceLine(Head(log))>> \o TraceLines(Tail(log))

\* The lines pushed for the log: header, one line per entry, a blank line.
LogSection(log) ==
  IF Len(log) > 0 THEN <<"Execution trace:">> \o TraceLines(log) \o <<"">> ELSE <<>>

\* The final result always rendered as JSON, a string in its quotes.
FinalSectionQuoted(finalResult, error) ==
  IF Truthy(error) THEN <<"Script error: " \o error.s>>
  ELSE IF finalResult.t # "undefined" /\ finalResult.t # "null"
       THEN <<"Final result: " \o JSONstringify(finalResult)>>
       ELSE <<>>

\* The final line: the error when it is truthy, else the result when it is
\* neither undefined nor null.  error is a string or Undefined (parameter omitted).
FinalSection(finalResult, error) ==
  IF Truthy(error) THEN <<"Script error: " \o error.s>>
  ELSE IF finalResult.t # "undefined" /\ finalResult.t # "null"
       THEN <<"Final result: "
               \o (IF IsString(finalResult) THEN finalResult.s ELSE JSONstringify(finalResult))>>
       ELSE <<>>

RECURSIVE JoinLines(_)
\* lines.join('\n')
JoinLines(lines) ==
  IF lines = <<>> THEN ""
  ELSE IF Len(lines) = 1 THEN lines[1]
  ELSE lines[1] \o "\n" \o JoinLines(Tail(lines))

formatExecutionResult(log, finalResult, error) ==
  JoinLines(LogSection(log) \o FinalSection(finalResult, error))

\* The timeout reported as a generic script error.
TimeoutMessageGeneric == "Script error: execution aborted"

\* new Error('Code execution timed out').message
TimeoutMessage == "Code execution timed out"

(***************************************************************************)
(* Message derivation on the two sides of the boundary.                    *)
(***************************************************************************)
\* The message field ignored: String(error) alone.
HostErrorMsgStringified(error) == JSString(error)

\* Host side, bridge catch: error?.message || String(error)
HostErrorMsg(error) ==
  IF Truthy(MessageOf(error)) THEN MessageOf(error).s ELSE JSString(error)

\* Script side, wrapper catch: e && e.message ? e.message : String(e)
ScriptErrMsg(e) ==
  IF Truthy(e) /\ Truthy(MessageOf(e)) THEN MessageOf(e).s ELSE JSString(e)

(***************************************************************************)
(* The capabilities bound in the repository's tests, and what a host       *)
(* function can do: resolve with its value, reject, or never complete.     *)
(***************************************************************************)
Bindings == {"getUserLocation", "getWeather"}

\* What the tool's execute function resolves with.
CapabilityResult(fn, args) ==
  IF fn = "getUserLocation" THEN Str("San Francisco, CA")
  ELSE Obj(<< <<"location", GetProp(args[1].props, "location")>>,
              <<"temperature", Num(65)>>,
              <<"condition", Str("foggy")>> >>)

\* What a failing host function rejects with.
RejectValues == {Err("boom"), Err("")}

(***************************************************************************)
(* Scripts: a body of capability calls, then how the script ends.          *)
(*   await       const r = await fn(args)                                  *)
(*   awaitCatch  const r = await fn(args).catch(() => undefined)           *)
(*   fire        fn(args), not awaited                                     *)
(***************************************************************************)
CallModes == {"await", "awaitCatch", "fire"}
CallOps == [fn : Bindings, mode : CallModes]
Bodies == UNION {[1..n -> CallOps] : n \in 0..MaxCalls}

\* What a script can throw.
ThrownValues == {Err("boom"), Err(""), Str("")}

Ends ==
  {[k |-> "return", v |-> x] : x \in {"none", "null", "string", "results"}}
  \cup {[k |-> "throw", e |-> e] : e \in ThrownValues}
  \cup {[k |-> "loop"], [k |-> "oom"]}

\* The script texts handed to execute; the last one does not parse.
Scripts ==
  {[body |-> b, end |-> e] : b \in Bodies, e \in Ends}
  \cup {[body |-> <<>>, end |-> [k |-> "syntaxError"]]}

\* The arguments of a call: getUserLocation(), getWeather({ location: r })
\* with r the result of the latest awaited call.
CallArgs(fn, res) ==
  IF fn = "getUserLocation" THEN <<>>
  ELSE << Obj(<< <<"location", IF res = <<>> THEN Undefined ELSE res[Len(res)]>> >>) >>

\* The value of the script's return statement.
ReturnValue(kind, res) ==
  CASE kind = "none" -> Undefined
    [] kind = "null" -> Null
    [] kind = "string" -> Str("done")
    [] kind = "results" -> Arr(res)

None == [k |-> "none"]

VARIABLES
  script,          \* code: the script handed to execute
  pc,              \* where the promise executor of execute is
  setupStep,       \* the awaits of the setup that have completed
  isolate,         \* "none", "live", "disposed"
  disposeCalls,    \* invocations of isolate.dispose() by cleanup
  finished,        \* the settle-once flag
  wallTimer,       \* "unset", "armed", "fired", "cleared"
  executionLog,    \* the invocation log
  promise,         \* the promise execute returns
  settleCalls,     \* invocations of resolve or reject
  settledBy,       \* the path whose callback passed the flag
  formatted,       \* the log handed to formatExecutionResult at settlement
  runPromise,      \* the promise of the script's evalClosure
  scriptState,     \* "idle", "ready", "awaiting", "signalled", "dead"
  ip,              \* the next statement of the script body
  results,         \* the results of the awaited calls so far
  waitingFor,      \* the call the script awaits
  reply,           \* the outcome of the awaited call, on its way into the isolate
  signal,          \* the terminal signal on its way to the host
  inflight,        \* host functions invoked and not completed
  invoked,         \* capability calls made by the script
  completionOrder, \* the calls, with their outcomes, in the order their host functions completed
  scriptTimers,    \* the host timers the script registered through setTimeout, by id
  current,         \* the execution the variables above belong to
  parked,          \* the variables of the other execution on the same sandbox
  fmt,             \* a call of formatExecutionResult: its arguments and what it returns
  ctor,            \* a sandbox under construction: the options and the fields derived
  tool,            \* toolScripting and its runToolScript tool: the caller's tools, the callbacks
  hostConsole      \* the console bridge: the calls of the script and the host's console

hostVars == <<pc, setupStep, isolate, disposeCalls, finished, wallTimer,
              executionLog, promise, settleCalls, settledBy, formatted>>
scriptVars == <<runPromise, scriptState, ip, results, waitingFor, reply, signal,
                inflight, invoked, completionOrder>>
\* What the script reaches through the other bridges of the setup.
aux == <<scriptTimers, current, parked, fmt, ctor, tool, hostConsole>>
vars == <<script, hostVars, scriptVars, aux>>

\* The awaits of the setup: createContext, jail.set, console, timers, one per binding.
NSetupSteps == 4 + Cardinality(Bindings)

\* The locals of one call of execute (and what the model records about it).
Park ==
  [pc |-> pc, setupStep |-> setupStep, isolate |-> isolate, disposeCalls |-> disposeCalls,
   finished |-> finished, wallTimer |-> wallTimer, executionLog |-> executionLog,
   promise |-> promise, settleCalls |-> settleCalls, settledBy |-> settledBy,
   formatted |-> formatted, runPromise |-> runPromise, scriptState |-> scriptState,
   ip |-> ip, results |-> results, waitingFor |-> waitingFor, reply |-> reply,
   signal |-> signal, inflight |-> inflight, invoked |-> invoked,
   completionOrder |-> completionOrder]

\* No call of execute has got anywhere yet.
NotStarted ==
  /\ pc = "init"
  /\ setupStep = 0
  /\ isolate = "none"
  /\ disposeCalls = 0
  /\ finished = FALSE
  /\ wallTimer = "unset"
  /\ executionLog = <<>>
  /\ promise = [state |-> "pending", value |-> ""]
  /\ settleCalls = 0
  /\ settledBy = "none"
  /\ formatted = None
  /\ runPromise = "none"
  /\ scriptState = "idle"
  /\ ip = 1
  /\ results = <<>>
  /\ waitingFor = 0
  /\ reply = None
  /\ signal = None
  /\ inflight = {}
  /\ invoked = 0
  /\ completionOrder = <<>>
  /\ scriptTimers = <<>>
  /\ current = 1
  /\ parked = Park

\* The sandbox is constructed and a script is about to be handed to execute.
Init ==
  /\ script \in Scripts
  /\ NotStarted
  /\ fmt = None
  /\ ctor = None
  /\ tool = None
  /\ hostConsole = None

(***************************************************************************)
(* The pieces the settling callbacks share.                                *)
(***************************************************************************)
\* The flag left unchecked: every arrival settles.
SettleGateOpen == TRUE

\* if (!finished)
SettleGate == ~finished

\* cleanup(): try { isolate.dispose(); } catch {}
cleanup ==
  /\ isolate' = "disposed"
  /\ disposeCalls' = disposeCalls + 1

\* The timer left as it is.
ClearWallTimerSkipped == UNCHANGED wallTimer

\* clearTimeout(wallTimer)
ClearWallTimer == wallTimer' = IF wallTimer = "armed" THEN "cleared" ELSE wallTimer

\* resolve(value) or reject(new Error(value)): only the first one settles a promise.
Settle(state, value) ==
  /\ promise' = IF promise.state = "pending"
                THEN [state |-> state, value |-> value] ELSE promise
  /\ settleCalls' = settleCalls + 1

\* The success path without its push.
BridgeResolvedSilent(log, call, result) == log

\* The entry put at the front of the log (unshift for push).
BridgeResolvedFirst(log, call, result) ==
  <<[fn |-> call.fn, args |-> call.args, result |-> result]>> \o log

\* executionLog.push({ fn: name, args, result })
BridgeResolved(log, call, result) ==
  Append(log, [fn |-> call.fn, args |-> call.args, result |-> result])

\* The failure path without its push.
BridgeRejectedSilent(log, call, error) == log

\* executionLog.push({ fn: name, args, result: `Error: ${errorMsg}` })
BridgeRejected(log, call, error) ==
  Append(log, [fn |-> call.fn, args |-> call.args,
               result |-> Str("Error: " \o HostErrorMsg(error))])

\* The script's evalClosure promise once the synchronous part of the script is over.
SyncPartOver == runPromise' = IF runPromise = "pending" THEN "resolved" ELSE runPromise
\* The same promise when the runtime aborts the script.
Aborted == runPromise' = IF runPromise = "pending" THEN "rejected" ELSE runPromise

(***************************************************************************)
(* The promise executor of execute.                                        *)
(***************************************************************************)
\* new ivm.Isolate(...), finished = false, executionLog = [], wallTimer = setTimeout(...),
\* up to the first await of the try block.
Execute ==
  /\ pc = "init"
  /\ pc' = "setup"
  /\ isolate' = "live"
  /\ wallTimer' = "armed"
  /\ UNCHANGED <<script, aux, setupStep, disposeCalls, finished, executionLog, promise,
                 settleCalls, settledBy, formatted, scriptVars>>

\* new ivm.Isolate(...) throws: the executor ends before the timer is set.
IsolateCreationFails ==
  /\ pc = "init"
  /\ pc' = "crashed"
  /\ UNCHANGED <<script, aux, setupStep, isolate, disposeCalls, finished, wallTimer,
                 executionLog, promise, settleCalls, settledBy, formatted, scriptVars>>

\* One await of the setup completes and the executor runs on to the next; after
\* the last one it starts the script (runPromise) and leaves the try block.
SetupStep ==
  /\ pc = "setup"
  /\ isolate = "live"
  /\ setupStep' = setupStep + 1
  /\ IF setupStep + 1 = NSetupSteps
     THEN /\ pc' = "running"
          /\ runPromise' = "pending"
          /\ scriptState' = "ready"
     ELSE UNCHANGED <<pc, runPromise, scriptState>>
  /\ UNCHANGED <<script, aux, isolate, disposeCalls, finished, wallTimer, executionLog,
                 promise, settleCalls, settledBy, formatted, ip, results, waitingFor,
                 reply, signal, inflight, invoked, completionOrder>>

\* What a failing setup step throws.
SetupError == Err("setup failed")

\* An await of the setup throws (always so once the isolate is disposed): the
\* catch block of the executor.
SetupThrows ==
  /\ pc = "setup"
  /\ pc' = "caught"
  /\ IF SettleGate
     THEN /\ finished' = TRUE
          /\ ClearWallTimer
          /\ cleanup
          /\ Settle("rejected", SetupError.message)
          /\ settledBy' = "setup"
     ELSE UNCHANGED <<finished, wallTimer, isolate, disposeCalls, promise,
                      settleCalls, settledBy>>
  /\ UNCHANGED <<script, aux, setupStep, executionLog, formatted, scriptVars>>

\* The wallTimer callback.
WallTimerFires ==
  /\ wallTimer = "armed"
  /\ wallTimer' = "fired"
  /\ IF SettleGate
     THEN /\ finished' = TRUE
          /\ cleanup
          /\ Settle("rejected", TimeoutMessage)
          /\ settledBy' = "timeout"
     ELSE UNCHANGED <<finished, isolate, disposeCalls, promise, settleCalls, settledBy>>
  /\ UNCHANGED <<script, aux, pc, setupStep, executionLog, formatted, scriptVars>>

\* The success reference: (res) => { if (!finished) { ... resolve(formattedResult) } }
SuccessCallback ==
  /\ signal.k = "success"
  /\ signal' = None
  /\ IF SettleGate
     THEN /\ finished' = TRUE
          /\ ClearWallTimer
          /\ cleanup
          /\ formatted' = [log |-> executionLog]
          /\ Settle("resolved", formatExecutionResult(executionLog, signal.res, Undefined))
          /\ settledBy' = "success"
     ELSE UNCHANGED <<finished, wallTimer, isolate, disposeCalls, formatted, promise,
                      settleCalls, settledBy>>
  /\ UNCHANGED <<script, aux, pc, setupStep, executionLog, runPromise, scriptState, ip,
                 results, waitingFor, reply, inflight, invoked, completionOrder>>

\* The failure reference: (msg) => { if (!finished) { ... reject(new Error(formattedError)) } }
FailureCallback ==
  /\ signal.k = "failure"
  /\ signal' = None
  /\ IF SettleGate
     THEN /\ finished' = TRUE
          /\ ClearWallTimer
          /\ cleanup
          /\ formatted' = [log |-> executionLog]
          /\ Settle("rejected", formatExecutionResult(executionLog, Null, Str(signal.msg)))
          /\ settledBy' = "failure"
     ELSE UNCHANGED <<finished, wallTimer, isolate, disposeCalls, formatted, promise,
                      settleCalls, settledBy>>
  /\ UNCHANGED <<script, aux, pc, setupStep, executionLog, runPromise, scriptState, ip,
                 results, waitingFor, reply, inflight, invoked, completionOrder>>

\* Promise.resolve(runPromise).catch(() => {}): a rejection of the script's
\* evaluation is swallowed.
RunPromiseCatch ==
  /\ runPromise = "rejected"
  /\ runPromise' = "swallowed"
  /\ UNCHANGED <<script, aux, hostVars, scriptState, ip, results, waitingFor, reply, signal,
                 inflight, invoked, completionOrder>>

(***************************************************************************)
(* The capability bridge, host side: the bound function completes.         *)
(***************************************************************************)
\* The outcome reaches the script when it still awaits this call.
Deliver(call, outcome) ==
  reply' = IF isolate = "live" /\ scriptState = "awaiting" /\ waitingFor = call.id
           THEN outcome ELSE reply

\* const result = await fn(...args); executionLog.push(...); return result;
CapabilityResolves ==
  \E call \in inflight :
    LET result == CapabilityResult(call.fn, call.args) IN
    /\ executionLog' = BridgeResolved(executionLog, call, result)
    /\ Deliver(call, [k |-> "resolved", v |-> result])
    /\ inflight' = inflight \ {call}
    /\ completionOrder' = Append(completionOrder, [call |-> call, k |-> "resolved", v |-> result])
    /\ UNCHANGED <<script, aux, pc, setupStep, isolate, disposeCalls, finished, wallTimer,
                   promise, settleCalls, settledBy, formatted, runPromise, scriptState,
                   ip, results, waitingFor, signal, invoked>>

\* catch (error) { ...; executionLog.push(...); throw error; }
CapabilityRejects ==
  \E call \in inflight, error \in RejectValues :
    /\ executionLog' = BridgeRejected(executionLog, call, error)
    /\ Deliver(call, [k |-> "rejected", v |-> error])
    /\ inflight' = inflight \ {call}
    /\ completionOrder' = Append(completionOrder, [call |-> call, k |-> "rejected", v |-> error])
    /\ UNCHANGED <<script, aux, pc, setupStep, isolate, disposeCalls, finished, wallTimer,
                   promise, settleCalls, settledBy, formatted, runPromise, scriptState,
                   ip, results, waitingFor, signal, invoked>>

(***************************************************************************)
(* The wrapped script, inside the isolate.                                 *)
(***************************************************************************)
AtEnd == ip = Len(script.body) + 1
Running == isolate = "live" /\ scriptState = "ready"

\* The script calls a capability: the bridge invokes the host function.
ScriptCall ==
  /\ Running
  /\ script.end.k # "syntaxError"
  /\ ~AtEnd
  /\ LET op == script.body[ip]
         call == [id |-> invoked + 1, fn |-> op.fn, args |-> CallArgs(op.fn, results)]
     IN /\ inflight' = inflight \cup {call}
        /\ invoked' = invoked + 1
        /\ IF op.mode = "fire"
           THEN /\ ip' = ip + 1
                /\ UNCHANGED <<scriptState, waitingFor, runPromise>>
           ELSE /\ scriptState' = "awaiting"
                /\ waitingFor' = call.id
                /\ SyncPartOver
                /\ UNCHANGED ip
  /\ UNCHANGED <<script, aux, hostVars, results, reply, signal, completionOrder>>

\* The awaited call has completed: the script goes on, or the rejection
\* reaches the wrapper's catch, which sends the failure signal.
ScriptResume ==
  /\ isolate = "live"
  /\ scriptState = "awaiting"
  /\ reply.k # "none"
  /\ reply' = None
  /\ IF reply.k = "resolved"
     THEN /\ results' = Append(results, reply.v)
          /\ ip' = ip + 1
          /\ scriptState' = "ready"
          /\ UNCHANGED signal
     ELSE IF script.body[ip].mode = "awaitCatch"
     THEN /\ results' = Append(results, Undefined)
          /\ ip' = ip + 1
          /\ scriptState' = "ready"
          /\ UNCHANGED signal
     ELSE /\ signal' = [k |-> "failure", msg |-> ScriptErrMsg(reply.v)]
          /\ scriptState' = "signalled"
          /\ UNCHANGED <<results, ip>>
  /\ UNCHANGED <<script, aux, hostVars, runPromise, waitingFor, inflight, invoked,
                 completionOrder>>

\* The script returns: $0.applyIgnored(undefined, [ __result ], ...)
ScriptReturns ==
  /\ Running
  /\ AtEnd
  /\ script.end.k = "return"
  /\ signal' = [k |-> "success", res |-> ReturnValue(script.end.v, results)]
  /\ scriptState' = "signalled"
  /\ SyncPartOver
  /\ UNCHANGED <<script, aux, hostVars, ip, results, waitingFor, reply, inflight, invoked,
                 completionOrder>>

\* The script throws: the wrapper's catch sends $1.applyIgnored(undefined, [ msg ], ...)
ScriptThrows ==
  /\ Running
  /\ AtEnd
  /\ script.end.k = "throw"
  /\ signal' = [k |-> "failure", msg |-> ScriptErrMsg(script.end.e)]
  /\ scriptState' = "signalled"
  /\ SyncPartOver
  /\ UNCHANGED <<script, aux, hostVars, ip, results, waitingFor, reply, inflight, invoked,
                 completionOrder>>

\* The wrapped script does not compile: runPromise rejects, no script code runs.
ScriptEvaluationFails ==
  /\ Running
  /\ script.end.k = "syntaxError"
  /\ scriptState' = "dead"
  /\ Aborted
  /\ UNCHANGED <<script, aux, hostVars, ip, results, waitingFor, reply, signal, inflight,
                 invoked, completionOrder>>

\* while(true){} in the synchronous part: evalClosure's { timeout } ends the
\* evaluation and runPromise rejects.
ScriptTimesOutInIsolate ==
  /\ Running
  /\ AtEnd
  /\ script.end.k = "loop"
  /\ runPromise = "pending"
  /\ scriptState' = "dead"
  /\ Aborted
  /\ UNCHANGED <<script, aux, hostVars, ip, results, waitingFor, reply, signal, inflight,
                 invoked, completionOrder>>

\* The script breaches the heap ceiling: the runtime disposes the isolate itself.
MemoryLimitBreached ==
  /\ Running
  /\ AtEnd
  /\ script.end.k = "oom"
  /\ isolate' = "disposed"
  /\ scriptState' = "dead"
  /\ Aborted
  /\ UNCHANGED <<script, aux, pc, setupStep, disposeCalls, finished, wallTimer, executionLog,
                 promise, settleCalls, settledBy, formatted, ip, results, waitingFor,
                 reply, signal, inflight, invoked, completionOrder>>

Next ==
  \/ Execute
  \/ IsolateCreationFails
  \/ SetupStep
  \/ SetupThrows
  \/ WallTimerFires
  \/ SuccessCallback
  \/ FailureCallback
  \/ RunPromiseCatch
  \/ CapabilityResolves
  \/ CapabilityRejects
  \/ ScriptCall
  \/ ScriptResume
  \/ ScriptReturns
  \/ ScriptThrows
  \/ ScriptEvaluationFails
  \/ ScriptTimesOutInIsolate
  \/ MemoryLimitBreached

Spec == Init /\ [][Next]_vars

\* The host event loop runs the callback of an armed timer.
FairSpec == Spec /\ WF_vars(WallTimerFires)

TypeOK ==
  /\ script \in Scripts
  /\ pc \in {"init", "setup", "running", "caught", "crashed"}
  /\ setupStep \in 0..NSetupSteps
  /\ isolate \in {"none", "live", "disposed"}
  /\ disposeCalls \in Nat
  /\ finished \in BOOLEAN
  /\ wallTimer \in {"unset", "armed", "fired", "cleared"}
  /\ promise.state \in {"pending", "resolved", "rejected"}
  /\ settledBy \in {"none", "setup", "timeout", "success", "failure"}
  /\ runPromise \in {"none", "pending", "resolved", "rejected", "swallowed"}
  /\ scriptState \in {"idle", "ready", "awaiting", "signalled", "dead"}
  /\ ip \in 1..(Len(script.body) + 1)
  /\ invoked \in 0..Len(script.body)
  /\ Len(executionLog) = Len(completionOrder)
  /\ scriptTimers \in Seq({"armed", "refused", "cleared", "fired", "firedIntoDisposed"})

(***************************************************************************)
(* The timers bridge: global.setTimeout and global.clearTimeout of the     *)
(* script reach the host's setTimeout and clearTimeout.  A setTimeout       *)
(* statement may stand anywhere in the script.                             *)
(***************************************************************************)
\* Largest number of setTimeout statements a script executes.
MaxTimers == 1

\* global.setTimeout(fn, ms): const id = setTimeout(() => {...}, ms); return id
ScriptSetTimeout ==
  /\ Running
  /\ script.end.k # "syntaxError"
  /\ Len(scriptTimers) < MaxTimers
  /\ scriptTimers' = Append(scriptTimers, "armed")
  /\ UNCHANGED <<script, hostVars, scriptVars, current, parked, fmt, ctor, tool, hostConsole>>

\* The call is made with { arguments: { reference: true, copy: true } }.  A
\* runtime that refuses the two transfer options together throws in the script
\* instead: no host timer is made, and the wrapper's catch sends the failure
\* signal.
TransferOptionsMessage == "Only one of copy, externalCopy, or reference may be set"

ScriptSetTimeoutThrows ==
  /\ Running
  /\ script.end.k # "syntaxError"
  /\ Len(scriptTimers) < MaxTimers
  /\ scriptTimers' = Append(scriptTimers, "refused")
  /\ signal' = [k |-> "failure", msg |-> TransferOptionsMessage]
  /\ scriptState' = "signalled"
  /\ SyncPartOver
  /\ UNCHANGED <<script, hostVars, ip, results, waitingFor, reply, inflight, invoked,
                 completionOrder, current, parked, fmt, ctor, tool, hostConsole>>

\* The references to functions of the script that the host holds: the fnRef in
\* the closure of every armed host timer.
HostHeldReferences == {id \in DOMAIN scriptTimers : scriptTimers[id] = "armed"}

\* global.clearTimeout(id): clearTimeout(id)
ScriptClearTimeout ==
  /\ Running
  /\ \E id \in DOMAIN scriptTimers :
       /\ scriptTimers[id] = "armed"
       /\ scriptTimers' = [scriptTimers EXCEPT ![id] = "cleared"]
  /\ UNCHANGED <<script, hostVars, scriptVars, current, parked, fmt, ctor, tool, hostConsole>>

\* The host timer's callback: try { fnRef.apply(undefined, args, ...) } catch {}
\* The function reference belongs to the execution's isolate, live or disposed.
ScriptTimerFires ==
  /\ \E id \in DOMAIN scriptTimers :
       /\ scriptTimers[id] = "armed"
       /\ scriptTimers' = [scriptTimers EXCEPT
                             ![id] = IF isolate = "live" THEN "fired" ELSE "firedIntoDisposed"]
  /\ UNCHANGED <<script, hostVars, scriptVars, current, parked, fmt, ctor, tool, hostConsole>>

TimersNext ==
  \/ Next
  \/ ScriptSetTimeout
  \/ ScriptSetTimeoutThrows
  \/ ScriptClearTimeout
  \/ ScriptTimerFires

\* Executions whose script uses the timers bridge.
TimersSpec == Init /\ [][TimersNext]_vars

(***************************************************************************)
(* Two calls of execute on one sandbox, with the same script and the same  *)
(* bindings.  The variables hold the locals of the execution whose         *)
(* callback or statement runs; those of the other one are parked.  The     *)
(* bound functions are deterministic: they resolve with their value.       *)
(***************************************************************************)
\* The scripts of two calls: getUserLocation then getWeather, each awaited or not.
PairScripts ==
  {[body |-> <<[fn |-> "getUserLocation", mode |-> m1], [fn |-> "getWeather", mode |-> m2]>>,
    end |-> e] :
     m1 \in {"await", "fire"}, m2 \in {"await", "fire"},
     e \in {[k |-> "return", v |-> "results"], [k |-> "throw", e |-> Err("boom")]}}

PairInit == Init /\ script \in PairScripts

\* One log kept on the sandbox object, the same for every execution.
LogOnInstance(other) == executionLog

\* const executionLog = [] inside the promise executor: the log of this call.
LogOf(other) == other.executionLog

\* The host event loop (or the other isolate's thread) goes on with the other
\* execution: what stands in the variables and what is parked change places.
Switch ==
  /\ current' = 3 - current
  /\ parked' = Park
  /\ pc' = parked.pc
  /\ setupStep' = parked.setupStep
  /\ isolate' = parked.isolate
  /\ disposeCalls' = parked.disposeCalls
  /\ finished' = parked.finished
  /\ wallTimer' = parked.wallTimer
  /\ executionLog' = LogOf(parked)
  /\ promise' = parked.promise
  /\ settleCalls' = parked.settleCalls
  /\ settledBy' = parked.settledBy
  /\ formatted' = parked.formatted
  /\ runPromise' = parked.runPromise
  /\ scriptState' = parked.scriptState
  /\ ip' = parked.ip
  /\ results' = parked.results
  /\ waitingFor' = parked.waitingFor
  /\ reply' = parked.reply
  /\ signal' = parked.signal
  /\ inflight' = parked.inflight
  /\ invoked' = parked.invoked
  /\ completionOrder' = parked.completionOrder
  /\ UNCHANGED <<script, scriptTimers, fmt, ctor, tool, hostConsole>>

PairNext ==
  \/ Execute
  \/ IsolateCreationFails
  \/ SetupStep
  \/ SetupThrows
  \/ WallTimerFires
  \/ SuccessCallback
  \/ FailureCallback
  \/ CapabilityResolves
  \/ ScriptCall
  \/ ScriptResume
  \/ ScriptReturns
  \/ ScriptThrows
  \/ Switch

PairSpec == PairInit /\ [][PairNext]_vars

(***************************************************************************)
(* formatExecutionResult on its own: the log, the final result and the     *)
(* error it is called with are drawn from the sets below.                  *)
(***************************************************************************)
\* No script takes part.
NoScript == [body |-> <<>>, end |-> [k |-> "return", v |-> "none"]]

LogEntries ==
  {[fn |-> "getUserLocation", args |-> <<>>, result |-> Str("San Francisco, CA")],
   [fn |-> "getWeather", args |-> <<Obj(<< <<"location", Str("SF")>> >>)>>,
    result |-> Obj(<< <<"temperature", Num(65)>>, <<"condition", Str("foggy")>> >>)],
   [fn |-> "getWeather", args |-> <<Obj(<<>>)>>, result |-> Str("Error: boom")],
   [fn |-> "getWeather", args |-> <<Null, Num(1)>>, result |-> Null]}

Logs == UNION {[1..n -> LogEntries] : n \in 0..MaxCalls}

\* What a script can return across the boundary.
FormatResults ==
  {Undefined, Null, Str("done"), Str(""), Num(0), Num(42), Bool(TRUE), Bool(FALSE),
   Arr(<<>>), Arr(<<Num(1), Str("a"), Null, Bool(FALSE)>>), Obj(<<>>),
   Obj(<< <<"l", Str("SF")>>, <<"w", Obj(<< <<"temperature", Num(65)>> >>)>> >>)}

\* The error parameter: omitted, or the message the failure callback received.
FormatErrors == {Undefined, Str(""), Str("boom")}

FormatInit ==
  /\ script = NoScript
  /\ NotStarted
  /\ ctor = None
  /\ tool = None
  /\ hostConsole = None
  /\ fmt \in [log : Logs, finalResult : FormatResults, error : FormatErrors, out : {None}]

\* formatExecutionResult(log, finalResult, error) returns lines.join('\n').
Format ==
  /\ fmt # None
  /\ fmt.out = None
  /\ fmt' = [fmt EXCEPT !.out = Str(formatExecutionResult(fmt.log, fmt.finalResult, fmt.error))]
  /\ UNCHANGED <<script, hostVars, scriptVars, scriptTimers, current, parked, ctor, tool, hostConsole>>

FormatNext == Format

FormatSpec == FormatInit /\ [][FormatNext]_vars

(***************************************************************************)
(* The constructor of CodeExecutionSandbox and the memory limit execute    *)
(* derives from the maxMemory field.                                       *)
(***************************************************************************)
\* a || b
Or(a, b) == IF Truthy(a) THEN a ELSE b

\* a ?? b
Coalesce(a, b) == IF a.t \in {"undefined", "null"} THEN b ELSE a

\* 1024 * 1024
MiB == 1024 * 1024

\* Math.ceil(a / b) for integers a and b > 0
CeilDiv(a, b) == (a + b - 1) \div b

\* Math.max(a, b)
Max(a, b) == IF a >= b THEN a ELSE b

DefaultTimeout == 30000
DefaultMaxMemory == 128 * 1024 * 1024
MinMemoryLimitMb == 8

\* options.sandbox.maxMemory, in bytes, when it is given.
MaxMemoryOptions ==
  {Num(n) : n \in {0, 1, MiB - 1, MiB, MiB + 1, 8 * MiB - 1, 8 * MiB, 8 * MiB + 1,
                   9 * MiB, 128 * MiB, 128 * MiB + 1, 256 * MiB}}

\* The options object; Undefined stands for a property that is absent.
Options ==
  [timeout : {Undefined, Num(0), Num(1), Num(5000)},
   allowConsole : {Undefined, Bool(TRUE), Bool(FALSE)},
   maxMemory : {Undefined} \cup MaxMemoryOptions]

ConstructInit ==
  /\ script = NoScript
  /\ NotStarted
  /\ fmt = None
  /\ tool = None
  /\ hostConsole = None
  /\ ctor \in [options : Options, fields : {None}, memoryLimitMb : {None}]

\* constructor(options): the three fields.
Constructor ==
  /\ ctor # None
  /\ ctor.fields = None
  /\ ctor' = [ctor EXCEPT !.fields =
                [timeout |-> Or(ctor.options.timeout, Num(DefaultTimeout)),
                 allowConsole |-> Coalesce(ctor.options.allowConsole, Bool(TRUE)),
                 maxMemory |-> Or(ctor.options.maxMemory, Num(DefaultMaxMemory))]]
  /\ UNCHANGED <<script, hostVars, scriptVars, scriptTimers, current, parked, fmt, tool, hostConsole>>

\* execute: const memoryLimitMb = Math.max(8, Math.ceil(this.maxMemory / (1024 * 1024)))
MemoryLimit ==
  /\ ctor # None
  /\ ctor.fields # None
  /\ ctor.memoryLimitMb = None
  /\ ctor' = [ctor EXCEPT !.memoryLimitMb =
                Num(Max(MinMemoryLimitMb, CeilDiv(ctor.fields.maxMemory.n, MiB)))]
  /\ UNCHANGED <<script, hostVars, scriptVars, scriptTimers, current, parked, fmt, tool, hostConsole>>

ConstructNext ==
  \/ Constructor
  \/ MemoryLimit

ConstructSpec == ConstructInit /\ [][ConstructNext]_vars

(***************************************************************************)
(* The runToolScript tool of toolScripting.                                *)
(***************************************************************************)
\* const result = await sandbox.execute(script, bindings); ...; return result
\* The value the tool hands back once execute has resolved.
runToolScriptResult == Str(promise.value)

(***************************************************************************)
(* toolScripting: the caller's tools, the bindings extracted from them,    *)
(* and one invocation of the runToolScript tool with the execution it      *)
(* starts.                                                                 *)
(***************************************************************************)
\* The scripts of this specification: no call or one awaited call, every ending.
SmallScripts ==
  {[body |-> b, end |-> e] :
     b \in {<<>>, <<[fn |-> "getUserLocation", mode |-> "await"]>>}, e \in Ends}
  \cup {[body |-> <<>>, end |-> [k |-> "syntaxError"]]}

\* The functions a tool's execute property can be.
ExecuteFunctions == {"locate", "forecast"}

\* The caller's tools object: one definition per tool name.
ToolSets ==
  {[name \in Bindings |-> [description |-> "about " \o name, execute |-> f[name]]] :
     f \in [Bindings -> ExecuteFunctions]}

\* Every name bound to the execute function of one and the same tool.
extractToolBindingsOfOne(tools) ==
  [name \in DOMAIN tools |-> tools[CHOOSE n \in DOMAIN tools : TRUE].execute]

\* for (const [name, tool] of Object.entries(tools)) bindings[name] = tool.execute
extractToolBindings(tools) == [name \in DOMAIN tools |-> tools[name].execute]

AdapterInit ==
  /\ script \in SmallScripts
  /\ NotStarted
  /\ fmt = None
  /\ ctor = None
  /\ hostConsole = None
  /\ tool \in [pc : {"config"}, tools : ToolSets, bindings : {None},
               callbacks : [metadata : BOOLEAN, result : BOOLEAN],
               events : {<<>>}, returned : {None}, thrown : {None}]

\* toolScripting(aiFunction, options)(config): the bindings are extracted, the
\* sandbox is constructed and aiFunction is handed the single tool runToolScript.
ToolScripting ==
  /\ tool # None
  /\ tool.pc = "config"
  /\ tool' = [tool EXCEPT !.pc = "ready", !.bindings = extractToolBindings(tool.tools)]
  /\ UNCHANGED <<script, hostVars, scriptVars, scriptTimers, current, parked, fmt, ctor,
                 hostConsole>>

\* The scriptMetadataCallback skipped.
MetadataEventsNone(given, code) == <<>>

\* if (scriptMetadataCallback) scriptMetadataCallback({ description, script })
MetadataEvents(given, code) ==
  IF given THEN <<[cb |-> "scriptMetadataCallback", arg |-> [script |-> code]]>> ELSE <<>>

\* The scriptResultCallback handed the text without its last character.
ResultEventsCut(given, result) ==
  IF given
  THEN <<[cb |-> "scriptResultCallback",
          arg |-> Str(SubSeq(result.s, 1, Len(result.s) - 1))]>>
  ELSE <<>>

\* if (scriptResultCallback) scriptResultCallback(result)
ResultEvents(given, result) ==
  IF given THEN <<[cb |-> "scriptResultCallback", arg |-> result]>> ELSE <<>>

\* runToolScript.execute({ description, script }) up to its await: the
\* metadata callback, then sandbox.execute(script, bindings), whose promise
\* executor runs at once up to its first await (or ends when new ivm.Isolate throws).
RunToolScript ==
  /\ tool # None
  /\ tool.pc = "ready"
  /\ pc = "init"
  /\ tool' = [tool EXCEPT !.pc = "awaiting",
                          !.events = @ \o MetadataEvents(tool.callbacks.metadata, script)]
  /\ \/ /\ pc' = "setup"
        /\ isolate' = "live"
        /\ wallTimer' = "armed"
     \/ /\ pc' = "crashed"
        /\ UNCHANGED <<isolate, wallTimer>>
  /\ UNCHANGED <<script, setupStep, disposeCalls, finished, executionLog, promise,
                 settleCalls, settledBy, formatted, scriptVars, scriptTimers, current,
                 parked, fmt, ctor, hostConsole>>

\* const result = await sandbox.execute(...) has resolved: the result callback,
\* then return result.
RunToolScriptReturns ==
  /\ tool # None
  /\ tool.pc = "awaiting"
  /\ promise.state = "resolved"
  /\ tool' = [tool EXCEPT !.pc = "returned",
                          !.events = @ \o ResultEvents(tool.callbacks.result, runToolScriptResult),
                          !.returned = runToolScriptResult]
  /\ UNCHANGED <<script, hostVars, scriptVars, scriptTimers, current, parked, fmt, ctor,
                 hostConsole>>

\* The await threw: the rejection of sandbox.execute leaves runToolScript.execute.
RunToolScriptThrows ==
  /\ tool # None
  /\ tool.pc = "awaiting"
  /\ promise.state = "rejected"
  /\ tool' = [tool EXCEPT !.pc = "threw", !.thrown = Err(promise.value)]
  /\ UNCHANGED <<script, hostVars, scriptVars, scriptTimers, current, parked, fmt, ctor,
                 hostConsole>>

AdapterNext ==
  \/ ToolScripting
  \/ RunToolScript
  \/ RunToolScriptReturns
  \/ RunToolScriptThrows
  \/ SetupStep
  \/ SetupThrows
  \/ WallTimerFires
  \/ SuccessCallback
  \/ FailureCallback
  \/ RunPromiseCatch
  \/ CapabilityResolves
  \/ CapabilityRejects
  \/ ScriptCall
  \/ ScriptResume
  \/ ScriptReturns
  \/ ScriptThrows
  \/ ScriptEvaluationFails
  \/ ScriptTimesOutInIsolate
  \/ MemoryLimitBreached

AdapterSpec == AdapterInit /\ [][AdapterNext]_vars

(***************************************************************************)
(* The console bridge: with allowConsole the script's console.log, error   *)
(* and warn apply a host function that writes to the host's console; else  *)
(* they are empty functions.  A console statement may stand anywhere in    *)
(* the script.                                                             *)
(***************************************************************************)
\* Largest number of console statements a script executes.
MaxConsoleCalls == 1

ConsoleMethods == {"log", "error", "warn"}

\* What a console statement is given: a value a copy can be made of, or a function.
ConsoleArgs == {"string", "function"}

\* (...args) => console.log('[sandbox]', ...args), console.error, console.warn
HostSink(method) == "console." \o method

\* The sandbox was constructed with these options: this.allowConsole =
\* options.sandbox?.allowConsole ?? true
ConsoleInit ==
  /\ script \in SmallScripts
  /\ NotStarted
  /\ fmt = None
  /\ ctor = None
  /\ tool = None
  /\ \E option \in {Undefined, Bool(TRUE), Bool(FALSE)} :
       hostConsole = [option |-> option,
                      allowConsole |-> Coalesce(option, Bool(TRUE)).b,
                      calls |-> <<>>, pending |-> <<>>, sink |-> <<>>]

\* console.log(...), console.error(...) or console.warn(...) in the script:
\* $n.apply(undefined, args, { arguments: { copy: true } }) with allowConsole,
\* () => {} without.  The arguments here can be copied, or nothing copies them.
ScriptConsoleCall ==
  /\ hostConsole # None
  /\ Running
  /\ script.end.k # "syntaxError"
  /\ Len(hostConsole.calls) < MaxConsoleCalls
  /\ \E method \in ConsoleMethods, arg \in ConsoleArgs :
       /\ hostConsole.allowConsole => arg = "string"
       /\ hostConsole' =
            [hostConsole EXCEPT
               !.calls = Append(@, [method |-> method, arg |-> arg]),
               !.pending = IF hostConsole.allowConsole THEN Append(@, method) ELSE @]
  /\ UNCHANGED <<script, hostVars, scriptVars, scriptTimers, current, parked, fmt, ctor,
                 tool>>

\* What the engine says of a value that no copy can be made of.
CloneMessage == "() => {} could not be cloned."

\* The same call with an argument that cannot be copied (a function): the
\* transfer fails inside apply, in the script, before anything is queued for
\* the host, and the script's catch reports the TypeError.
ScriptConsoleCallThrows ==
  /\ hostConsole # None
  /\ Running
  /\ script.end.k # "syntaxError"
  /\ Len(hostConsole.calls) < MaxConsoleCalls
  /\ hostConsole.allowConsole
  /\ \E method \in ConsoleMethods :
       hostConsole' =
         [hostConsole EXCEPT !.calls = Append(@, [method |-> method, arg |-> "function"])]
  /\ signal' = [k |-> "failure", msg |-> CloneMessage]
  /\ scriptState' = "signalled"
  /\ SyncPartOver
  /\ UNCHANGED <<script, hostVars, ip, results, waitingFor, reply, inflight, invoked,
                 completionOrder, scriptTimers, current, parked, fmt, ctor, tool>>

\* The same failure reported through the promise apply returns, which the shim
\* drops: the script goes on, and nothing reaches the host.
ScriptConsoleCallDropped ==
  /\ hostConsole # None
  /\ Running
  /\ script.end.k # "syntaxError"
  /\ Len(hostConsole.calls) < MaxConsoleCalls
  /\ hostConsole.allowConsole
  /\ \E method \in ConsoleMethods :
       hostConsole' =
         [hostConsole EXCEPT !.calls = Append(@, [method |-> method, arg |-> "function"])]
  /\ UNCHANGED <<script, hostVars, scriptVars, scriptTimers, current, parked, fmt, ctor,
                 tool>>

\* The host function of the applied reference runs.
ConsoleForward ==
  /\ hostConsole # None
  /\ hostConsole.pending # <<>>
  /\ hostConsole' =
       [hostConsole EXCEPT
          !.pending = Tail(@),
          !.sink = Append(@, [sink |-> HostSink(Head(hostConsole.pending)),
                              prefix |-> "[sandbox]"])]
  /\ UNCHANGED <<script, hostVars, scriptVars, scriptTimers, current, parked, fmt, ctor,
                 tool>>

ConsoleNext ==
  \/ Next
  \/ ScriptConsoleCall
  \/ ScriptConsoleCallThrows
  \/ ScriptConsoleCallDropped
  \/ ConsoleForward

ConsoleSpec == ConsoleInit /\ [][ConsoleNext]_vars

(***************************************************************************)
(* Properties.                                                             *)
(***************************************************************************)
\* The success or failure callback has run (it consumed the script's signal).
SignalArrived == scriptState = "signalled" /\ signal = None

\* C1: once an isolate exists, isolate.dispose() is never invoked twice, it has
\* been invoked exactly once as soon as any path has ended the execution and not
\* before, and every execution with an isolate does reach that point.
C1_DisposeExactlyOnce ==
  /\ [](isolate # "none" =>
          /\ disposeCalls <= 1
          /\ (finished <=> disposeCalls = 1)
          /\ (settledBy # "none" <=> disposeCalls = 1))
  /\ [](isolate = "live" => <>(disposeCalls = 1))

\* The timer fired while the setup was still in progress, and the setup's catch
\* block ran afterwards.
C1_Witness ==
  /\ pc = "caught"
  /\ settledBy = "timeout"
  /\ setupStep < NSetupSteps
  /\ disposeCalls = 1

\* C2: resolve or reject is invoked at most once, the promise is settled exactly
\* when the flag is set, and once the flag is set no arrival changes the
\* outcome, settles again or cleans up again.
C2_SettledAtMostOnce ==
  /\ [](settleCalls <= 1 /\ (finished <=> promise.state # "pending"))
  /\ [][finished => UNCHANGED <<finished, promise, settleCalls, disposeCalls, settledBy,
                                formatted, wallTimer>>]_vars

\* The script's terminal signal arrived after the timer had settled the execution.
C2_Witness ==
  /\ settledBy = "timeout"
  /\ SignalArrived
  /\ settleCalls = 1
  /\ promise.value = TimeoutMessage

\* C3: no entry is appended to the invocation log once the execution has settled.
C3_NoAppendAfterSettlement == [][finished => executionLog' = executionLog]_vars

\* sub occurs in s.
Contains(s, sub) ==
  \E i \in 1..(Len(s) - Len(sub) + 1) : SubSeq(s, i, i + Len(sub) - 1) = sub

\* The execution was settled by the timer: rejected, the message says so, and
\* the isolate is disposed.
TimedOut ==
  /\ settledBy = "timeout"
  /\ promise.state = "rejected"
  /\ Contains(promise.value, "timed out")
  /\ isolate = "disposed"

\* C4: an execution that neither the success nor the failure signal (nor a
\* setup error) settles before the timer fires is settled by the timer:
\* rejected with a message that says timed out, the isolate disposed, whatever
\* the log holds by then.
C4_TimeoutSettles ==
  /\ [](settledBy = "timeout" => TimedOut)
  /\ [](wallTimer = "armed" =>
          <>(settledBy \in {"success", "failure", "setup"} \/ TimedOut))

\* The script is blocked on a capability that never resolves, after another
\* call had completed, and the timer has settled the execution.
C4_Witness ==
  /\ TimedOut
  /\ scriptState = "awaiting"
  /\ inflight # {}
  /\ Len(executionLog) >= 1

\* C5: when the timer settles the execution, every call that had completed by
\* then appears as a trace line in the message of the error delivered.
C5_TimeoutCarriesTrace ==
  [][(settledBy = "none" /\ settledBy' = "timeout") =>
       \A i \in DOMAIN executionLog :
         Contains(promise'.value, TraceLine(executionLog[i]))]_vars

\* The failure signal that settled the execution came from the rejection of an
\* awaited call the script did not catch.
UncaughtRejection == settledBy = "failure" /\ ip <= Len(script.body)

\* The completion of the call with this id.
CompletionOf(id) ==
  CHOOSE r \in {completionOrder[i] : i \in DOMAIN completionOrder} : r.call.id = id

\* The trace has the entry "Error: " + m for the rejected call, and the error
\* delivered is the formatted trace followed by the line "Script error: " + m.
RejectionReported(r, m) ==
  /\ \E i \in DOMAIN formatted.log :
       formatted.log[i] = [fn |-> r.call.fn, args |-> r.call.args,
                           result |-> Str("Error: " \o m)]
  /\ promise = [state |-> "rejected",
                value |-> JoinLines(LogSection(formatted.log)
                                    \o <<"Script error: " \o m>>)]

\* C6 as stated: for every message m of an uncaught capability rejection, the
\* entry is "Error: " + m and the error is the trace then "Script error: " + m.
C6_AnyMessage ==
  UncaughtRejection =>
    RejectionReported(CompletionOf(waitingFor), CompletionOf(waitingFor).v.message)

\* C6, amended: the same for every non-empty message m.
C6_NonEmptyMessage ==
  (UncaughtRejection /\ CompletionOf(waitingFor).v.message # "") =>
    RejectionReported(CompletionOf(waitingFor), CompletionOf(waitingFor).v.message)

\* An awaited call rejected with "boom", uncaught, settled the execution.
C6_Witness ==
  /\ UncaughtRejection
  /\ CompletionOf(waitingFor).v.message = "boom"
  /\ Contains(promise.value, "Script error: boom")

\* The calls the script awaited (caught or not) that have completed.
AwaitedCompletions ==
  {r \in {completionOrder[i] : i \in DOMAIN completionOrder} :
     script.body[r.call.id].mode # "fire"}

\* The outcome delivered holds the trace line of this completion: the value
\* for a resolved call, a text starting "Error: " (the message itself after
\* it when the message is not empty) for a rejected one.
LoggedInOutcome(r) ==
  \E i \in DOMAIN formatted.log :
    LET entry == formatted.log[i] IN
    /\ entry.fn = r.call.fn
    /\ entry.args = r.call.args
    /\ IF r.k = "resolved" THEN entry.result = r.v
       ELSE /\ IsString(entry.result)
            /\ SubSeq(entry.result.s, 1, 7) = "Error: "
            /\ (r.v.message # "" => entry.result.s = "Error: " \o r.v.message)
    /\ Contains(promise.value, TraceLine(entry))

\* C7: a failure signal caused by a capability comes only from a rejection the
\* script did not catch; when the script caught a rejected call and went on to
\* return, the execution resolves, the outcome holds the "Error: ..." entry of
\* that call, and every awaited call after it is logged with its own outcome.
C7_CaughtFailureNotFatal ==
  /\ UncaughtRejection => script.body[ip].mode = "await"
  /\ settledBy = "success" =>
       \A r \in AwaitedCompletions :
         (r.k = "rejected" /\ script.body[r.call.id].mode = "awaitCatch") =>
           /\ promise.state = "resolved"
           /\ LoggedInOutcome(r)
           /\ \A r2 \in AwaitedCompletions :
                r2.call.id > r.call.id => LoggedInOutcome(r2)

\* The first call rejected and was caught, the second resolved, and the script
\* returned a value.
C7_Witness ==
  /\ settledBy = "success"
  /\ promise.state = "resolved"
  /\ Len(script.body) = 2
  /\ script.body[1].mode = "awaitCatch"
  /\ script.body[2].mode = "await"
  /\ script.end = [k |-> "return", v |-> "results"]
  /\ Len(formatted.log) = 2
  /\ formatted.log[1].result = Str("Error: boom")
  /\ formatted.log[2].result.t = "object"

\* Settled by the script's own signal.
SettledBySignal == settledBy \in {"success", "failure"}

\* C8 as stated: the trace delivered has one entry per call the script made,
\* awaited or not.
C8_EntryPerCallMade == SettledBySignal => Len(formatted.log) = invoked

\* C8, amended: the trace delivered has exactly one entry per call whose host
\* function had completed when the signal settled the execution, each call
\* once; every call the script awaited is among them, so the trace has all N
\* entries when no call was left unawaited.
C8_EntryPerCallCompleted ==
  /\ [](SettledBySignal =>
          /\ Len(formatted.log) <= Len(completionOrder)
          /\ \A i \in DOMAIN formatted.log :
               /\ formatted.log[i].fn = completionOrder[i].call.fn
               /\ formatted.log[i].args = completionOrder[i].call.args
               /\ \A j \in DOMAIN formatted.log :
                    completionOrder[i].call.id = completionOrder[j].call.id => i = j
          /\ \A id \in 1..invoked :
               script.body[id].mode # "fire" =>
                 \E i \in DOMAIN formatted.log : completionOrder[i].call.id = id
          /\ ((\A id \in 1..invoked : script.body[id].mode # "fire")
                => Len(formatted.log) = invoked))
  /\ [][(settledBy = "none" /\ settledBy' \in {"success", "failure"}) =>
          /\ formatted'.log = executionLog
          /\ Len(formatted'.log) = Len(completionOrder)
          /\ Len(formatted'.log) = invoked - Cardinality(inflight)]_vars

\* Two calls, the first not awaited, the second awaited, both completed before
\* the signal settled the execution: two entries.
C8_Witness ==
  /\ SettledBySignal
  /\ invoked = 2
  /\ script.body[1].mode = "fire"
  /\ script.body[2].mode = "await"
  /\ Len(formatted.log) = 2

\* C9: the log holds the calls in the order their host functions completed.
C9_CompletionOrder ==
  /\ Len(executionLog) = Len(completionOrder)
  /\ \A i \in DOMAIN executionLog :
       /\ executionLog[i].fn = completionOrder[i].call.fn
       /\ executionLog[i].args = completionOrder[i].call.args
       /\ (completionOrder[i].k = "resolved" => executionLog[i].result = completionOrder[i].v)

\* The first call was invoked first and completed last: its entry is second.
C9_Witness ==
  /\ Len(executionLog) = 2
  /\ completionOrder[1].call.id = 2
  /\ completionOrder[2].call.id = 1
  /\ script.body[1].fn # script.body[2].fn
  /\ executionLog[1].fn = script.body[2].fn
  /\ executionLog[2].fn = script.body[1].fn

\* The runtime ended the evaluation without the wrapper's try/catch running.
RuntimeAborted == scriptState = "dead" /\ script.end.k \in {"oom", "syntaxError"}

\* C10: an execution whose script the runtime aborted is settled by the failure
\* callback, as a script error, with the timer cleared and the isolate disposed.
C10_AbortIsScriptError ==
  (RuntimeAborted /\ settledBy # "none") =>
    /\ settledBy = "failure"
    /\ promise.state = "rejected"
    /\ Contains(promise.value, "Script error: ")
    /\ wallTimer = "cleared"
    /\ isolate = "disposed"

\* The setup ended in an error before any script code ran, and the timer had
\* not settled the execution by then.
SetupFailed == pc \in {"crashed", "caught"} /\ settledBy # "timeout"

\* C11: when isolate creation, context creation or the installation of a
\* binding fails, the promise is rejected with that error at once, nothing was
\* formatted (no trace), the wall timer is not armed any more and no isolate is
\* left alive.
C11_SetupErrorRejects ==
  SetupFailed =>
    /\ promise = [state |-> "rejected", value |-> SetupError.message]
    /\ settledBy = "setup"
    /\ formatted = None
    /\ wallTimer # "armed"
    /\ isolate # "live"

\* C12: once the execution has settled, on whichever path, no host timer the
\* script registered is still armed, and none has fired into the disposed
\* isolate.
C12_ScriptTimersCleared ==
  finished =>
    \A id \in DOMAIN scriptTimers :
      scriptTimers[id] \notin {"armed", "firedIntoDisposed"}

\* The log holds exactly the calls of these completions, in their order.
OwnEntries(log, completions) ==
  /\ Len(log) = Len(completions)
  /\ \A i \in DOMAIN log :
       /\ log[i].fn = completions[i].call.fn
       /\ log[i].args = completions[i].call.args

\* The trace handed to the formatter is a prefix of the execution's own completions.
OwnTrace(handed, completions) ==
  handed # None =>
    /\ Len(handed.log) <= Len(completions)
    /\ OwnEntries(handed.log, SubSeq(completions, 1, Len(handed.log)))

\* C13: of two executions in flight on one sandbox with the same bindings, each
\* has its own log, flag, timer, isolate and promise: the log and the trace of
\* each hold only the calls its own script made, each is settled and disposed
\* at most once, a step of one (its settlement, timeout and disposal included)
\* leaves every variable of the other as it was, and going from one to the
\* other changes nothing of either.
C13_ExecutionsIsolated ==
  /\ [](/\ OwnEntries(executionLog, completionOrder)
        /\ OwnEntries(parked.executionLog, parked.completionOrder)
        /\ OwnTrace(formatted, completionOrder)
        /\ OwnTrace(parked.formatted, parked.completionOrder)
        /\ settleCalls <= 1 /\ parked.settleCalls <= 1
        /\ disposeCalls <= 1 /\ parked.disposeCalls <= 1)
  /\ [][current' = current => parked' = parked]_vars
  /\ [][current' # current => (parked' = Park /\ Park' = parked)]_vars

\* Both executions started; the timer settled one while its awaited call was
\* still in flight and its isolate is disposed; the other one went on and
\* resolved with both its calls in its trace.
C13_Witness ==
  /\ parked.settledBy = "timeout"
  /\ parked.isolate = "disposed"
  /\ parked.inflight # {}
  /\ Len(parked.executionLog) = 1
  /\ settledBy = "success"
  /\ isolate = "disposed"
  /\ Len(formatted.log) = 2
  /\ promise.state = "resolved"

\* const l = await getUserLocation(); const w = await getWeather({ location: l });
\* return [l, w];
SequentialScript ==
  [body |-> <<[fn |-> "getUserLocation", mode |-> "await"],
              [fn |-> "getWeather", mode |-> "await"]>>,
   end |-> [k |-> "return", v |-> "results"]]

\* The outcome of that script when both capabilities resolve.
SequentialOutcome ==
  "Execution trace:\n"
  \o "  getUserLocation([]) \\u2192 San Francisco, CA\n"
  \o "  getWeather([{\"location\":\"San Francisco, CA\"}]) \\u2192 "
  \o "{\"location\":\"San Francisco, CA\",\"temperature\":65,\"condition\":\"foggy\"}\n"
  \o "\n"
  \o "Final result: [\"San Francisco, CA\","
  \o "{\"location\":\"San Francisco, CA\",\"temperature\":65,\"condition\":\"foggy\"}]"

\* C14: when the script that awaits call 1, passes its result to call 2, awaits
\* it and returns a value built from both is settled by its own signal, both
\* capabilities having resolved, the promise is resolved, the trace has the two
\* entries in invocation order, the arguments of the second hold the result of
\* the first, and the outcome ends with "Final result: " and the JSON of the
\* value returned.
C14_SequentialCalls ==
  (/\ script = SequentialScript
   /\ SettledBySignal
   /\ \A i \in DOMAIN completionOrder : completionOrder[i].k = "resolved") =>
    /\ settledBy = "success"
    /\ promise = [state |-> "resolved", value |-> SequentialOutcome]
    /\ Len(formatted.log) = 2
    /\ formatted.log[1].fn = "getUserLocation"
    /\ formatted.log[2].fn = "getWeather"
    /\ GetProp(formatted.log[2].args[1].props, "location") = formatted.log[1].result

\* That script has run to its return and the success callback has settled.
C14_Witness ==
  /\ script = SequentialScript
  /\ settledBy = "success"
  /\ promise.state = "resolved"
  /\ Len(formatted.log) = 2
  /\ results = <<formatted.log[1].result, formatted.log[2].result>>

RECURSIVE SplitLines(_)
\* s.split('\n')
SplitLines(s) ==
  IF \E i \in 1..Len(s) : SubSeq(s, i, i) = "\n"
  THEN LET i == CHOOSE k \in 1..Len(s) :
                  /\ SubSeq(s, k, k) = "\n"
                  /\ \A j \in 1..(k - 1) : SubSeq(s, j, j) # "\n"
       IN <<SubSeq(s, 1, i - 1)>> \o SplitLines(SubSeq(s, i + 1, Len(s)))
  ELSE <<s>>

\* formatExecutionResult has returned.
Formatted == fmt # None /\ fmt.out # None

\* The lines of the text returned (none when the text is empty).
OutLines == IF fmt.out.s = "" THEN <<>> ELSE SplitLines(fmt.out.s)

\* The lines of the trace section, and those after it.
TraceSectionLen == IF Len(fmt.log) > 0 THEN Len(fmt.log) + 2 ELSE 0
TraceSectionLines == SubSeq(OutLines, 1, TraceSectionLen)
FinalLines == SubSeq(OutLines, TraceSectionLen + 1, Len(OutLines))

\* C15 as stated: for every JSON-serializable value X returned (strings and
\* null included), the success outcome has the line "Final result: " followed by
\* the JSON encoding of X.
C15_FinalResultIsJSON ==
  (Formatted /\ fmt.error = Undefined /\ fmt.finalResult # Undefined) =>
    FinalLines = <<"Final result: " \o JSONstringify(fmt.finalResult)>>

\* C15, amended: the success outcome has the line "Final result: " followed by
\* the JSON encoding of X when X is a number, a boolean, an array or an object,
\* by X itself, without quotes, when X is a string, and has no such line when X
\* is null (or undefined).
C15_FinalResultRendered ==
  (Formatted /\ fmt.error = Undefined) =>
    FinalLines =
      IF fmt.finalResult.t \in {"undefined", "null"} THEN <<>>
      ELSE IF fmt.finalResult.t = "string" THEN <<"Final result: " \o fmt.finalResult.s>>
      ELSE <<"Final result: " \o JSONstringify(fmt.finalResult)>>

\* A nested object was returned after one call, and the outcome ends with its JSON.
C15_Witness ==
  /\ Formatted
  /\ fmt.error = Undefined
  /\ Len(fmt.log) = 1
  /\ fmt.finalResult.t = "object"
  /\ OutLines[Len(OutLines)] = "Final result: {\"l\":\"SF\",\"w\":{\"temperature\":65}}"

\* C16: after the trace section the formatter emits exactly one line,
\* "Script error: " and the message, whenever a message is given, whatever the
\* message string and whatever the result; without a message it emits exactly
\* one line, "Final result: " and the rendered result, when the result is
\* neither undefined nor null, and no line otherwise.
C16_OneFinalLine ==
  Formatted =>
    FinalLines =
      IF fmt.error # Undefined THEN <<"Script error: " \o fmt.error.s>>
      ELSE IF fmt.finalResult.t \notin {"undefined", "null"}
      THEN <<"Final result: " \o (IF IsString(fmt.finalResult) THEN fmt.finalResult.s
                                  ELSE JSONstringify(fmt.finalResult))>>
      ELSE <<>>

\* The outcome of a trace entry as the formatter renders it.
RenderedOutcome(entry) ==
  IF entry.result.t = "string" THEN entry.result.s ELSE JSONstringify(entry.result)

\* The trace section has the header, one line per entry in trace order made of
\* two spaces, the name, the JSON of the args in parentheses, the separator and
\* the rendered outcome, then one blank line; nothing for an empty log.
TraceSectionWith(separator) ==
  IF Len(fmt.log) = 0
  THEN /\ TraceSectionLines = <<>>
       /\ \A i \in DOMAIN OutLines : OutLines[i] # "Execution trace:" /\ OutLines[i] # ""
  ELSE /\ Len(TraceSectionLines) = Len(fmt.log) + 2
       /\ TraceSectionLines[1] = "Execution trace:"
       /\ \A i \in DOMAIN fmt.log :
            TraceSectionLines[i + 1] =
              "  " \o fmt.log[i].fn \o "(" \o JSONstringify(Arr(fmt.log[i].args)) \o ")"
              \o separator \o RenderedOutcome(fmt.log[i])
       /\ TraceSectionLines[Len(fmt.log) + 2] = ""

LimitComputed == ctor # None /\ ctor.memoryLimitMb # None

\* C18: the limit in MiB is max(8, ceil(maxMemory / 2^20)) for every maxMemory
\* given, 0 and 1 included, so that every value below 8 MiB gives 8; it is the
\* default's 128 only when the option is absent.
C18_MemoryLimitClamped ==
  LimitComputed =>
    ctor.memoryLimitMb.n =
      IF ctor.options.maxMemory = Undefined THEN 128
      ELSE Max(8, CeilDiv(ctor.options.maxMemory.n, 1048576))

\* The calls of a trace: names and arguments, in trace order.
CallSeq(log) == [i \in DOMAIN log |-> [fn |-> log[i].fn, args |-> log[i].args]]

\* Both executions of the script were settled by the script's own signal.
BothSettledBySignal ==
  /\ settledBy \in {"success", "failure"}
  /\ parked.settledBy \in {"success", "failure"}

\* C19 as stated: two executions of the same script with the same deterministic
\* bindings deliver traces with the same names and arguments in the same order,
\* whether or not the script awaits each call before the next.
C19_SameTraces ==
  BothSettledBySignal => CallSeq(formatted.log) = CallSeq(parked.formatted.log)

\* C19, amended: they do when the script awaits every call before it goes on.
C19_SameTracesWhenAwaited ==
  (BothSettledBySignal /\ \A i \in DOMAIN script.body : script.body[i].mode # "fire") =>
    CallSeq(formatted.log) = CallSeq(parked.formatted.log)

\* Both executions of the script that awaits its two calls have resolved, each
\* with the two calls in its trace.
C19_Witness ==
  /\ BothSettledBySignal
  /\ \A i \in DOMAIN script.body : script.body[i].mode = "await"
  /\ settledBy = "success"
  /\ parked.settledBy = "success"
  /\ Len(formatted.log) = 2
  /\ Len(parked.formatted.log) = 2

\* C20: for a script that ended successfully, what runToolScript hands back is
\* the value the script returned.
C20_ReturnsScriptValue ==
  settledBy = "success" => runToolScriptResult = ReturnValue(script.end.v, results)

\* C21: the caller's tools object (every definition, every execute function) is
\* the same after every step of the adapter and of the execution; the bindings
\* extracted have exactly the tools' names, each bound to the execute function
\* of the tool of that name; and the setup installs one bridge per binding.
C21_ToolsUntouched ==
  /\ [](tool.bindings # None =>
          /\ DOMAIN tool.bindings = DOMAIN tool.tools
          /\ \A name \in DOMAIN tool.tools : tool.bindings[name] = tool.tools[name].execute)
  /\ [](pc = "running" => setupStep = 4 + Cardinality(DOMAIN tool.bindings))
  /\ [][tool'.tools = tool.tools]_vars

\* Two tools with different execute functions; the script called a capability
\* and the tool has returned.
C21_Witness ==
  /\ tool.pc = "returned"
  /\ tool.tools["getUserLocation"].execute # tool.tools["getWeather"].execute
  /\ tool.bindings["getWeather"] = "forecast"
  /\ Len(executionLog) = 1

\* C22: the step by which the success or the failure signal settles an
\* execution stops the armed wall timer, disposes the isolate and delivers the
\* outcome formatted from the log as it is at that moment; so whenever the
\* caller can observe an outcome the isolate is not alive and the timer is not
\* armed.
C22_SettlementOrder ==
  /\ [][(settledBy = "none" /\ settledBy' \in {"success", "failure"}) =>
          /\ wallTimer = "armed" /\ wallTimer' = "cleared"
          /\ isolate = "live" /\ isolate' = "disposed"
          /\ disposeCalls' = disposeCalls + 1
          /\ promise.state = "pending" /\ promise'.state # "pending"
          /\ formatted'.log = executionLog
          /\ \A i \in DOMAIN executionLog :
               Contains(promise'.value, TraceLine(executionLog[i]))]_vars
  /\ [](settledBy \in {"success", "failure"} =>
          (wallTimer = "cleared" /\ isolate = "disposed" /\ promise.state # "pending"))
  /\ [](promise.state # "pending" => (isolate # "live" /\ wallTimer # "armed"))

\* The failure signal settled an execution that had a completed call in its log.
C22_Witness ==
  /\ settledBy = "failure"
  /\ promise.state = "rejected"
  /\ wallTimer = "cleared"
  /\ isolate = "disposed"
  /\ Len(formatted.log) = 1

\* The outcome state of the execution, if it has reached one.
OutcomeState ==
  CASE settledBy = "success" -> "Completed"
    [] settledBy \in {"failure", "setup"} -> "Failed"
    [] settledBy = "timeout" -> "TimedOut"
    [] OTHER -> "none"

\* The execution is in progress: the executor has started, no outcome yet, and
\* its isolate is alive.
InProgress == pc \in {"setup", "running"} /\ settledBy = "none" /\ isolate = "live"

\* C23: an outcome state is entered only while the execution is in progress and
\* is never left for another one; the isolate becomes disposed only in the
\* step that enters an outcome state, and stays disposed; once an outcome state
\* is reached the script takes no step and no capability is invoked.
C23_StateMachine ==
  /\ [][(OutcomeState = "none" /\ OutcomeState' # "none") => InProgress]_vars
  /\ [][OutcomeState # "none" => OutcomeState' = OutcomeState]_vars
  /\ [][(isolate # "disposed" /\ isolate' = "disposed") =>
          (OutcomeState = "none" /\ OutcomeState' # "none")]_vars
  /\ [][isolate = "disposed" => isolate' = "disposed"]_vars
  /\ [][OutcomeState # "none" =>
          (ip' = ip /\ invoked' = invoked /\ results' = results
           /\ scriptState' = scriptState)]_vars

\* C24: at no point does the host hold a reference to a function or an object
\* of the script: what crosses a bridge crosses as a copy.
C24_NothingCrossesByReference == HostHeldReferences = {}

\* The host sinks the calls of the script reach when each is forwarded.
RECURSIVE SinksOf(_)
SinksOf(calls) ==
  IF calls = <<>> THEN <<>>
  ELSE <<"console." \o Head(calls).method>> \o SinksOf(Tail(calls))

\* The host sinks of the calls that are on their way to the host.
PendingSinks == [i \in DOMAIN hostConsole.pending |-> "console." \o hostConsole.pending[i]]

\* C25: allowConsole is true unless the option is given as false; without it
\* no console call of the script writes anything on the host; with it every
\* call the script has made is forwarded once, in order, to the host sink of
\* its own method (what is not written yet is on its way).
C25_ConsoleForwarding ==
  /\ hostConsole.allowConsole <=> hostConsole.option # Bool(FALSE)
  /\ ~hostConsole.allowConsole =>
       (hostConsole.sink = <<>> /\ hostConsole.pending = <<>>)
  /\ hostConsole.allowConsole =>
       [i \in DOMAIN hostConsole.sink |-> hostConsole.sink[i].sink] \o PendingSinks
         = SinksOf(hostConsole.calls)

\* The same for the calls whose arguments can be copied.
C25_CopyableForwarded ==
  /\ hostConsole.allowConsole <=> hostConsole.option # Bool(FALSE)
  /\ ~hostConsole.allowConsole =>
       (hostConsole.sink = <<>> /\ hostConsole.pending = <<>>)
  /\ hostConsole.allowConsole =>
       [i \in DOMAIN hostConsole.sink |-> hostConsole.sink[i].sink] \o PendingSinks
         = SinksOf(SelectSeq(hostConsole.calls, LAMBDA c : c.arg = "string"))

\* C26: every call of execute settles: once the executor has run, the promise
\* execute returned is eventually resolved or rejected.
C26_EverySettles == [](pc # "init" => <>(promise.state # "pending"))

\* The same for the executions whose isolate was created.
C26_SettlesOnceIsolateExists == [](isolate # "none" => <>(promise.state # "pending"))

\* The calls made of one of the two callbacks, in order.
CallbackCalls(cb) == SelectSeq(tool.events, LAMBDA ev : ev.cb = cb)

\* C27: for one invocation of runToolScript.execute, the metadata callback (when
\* given) has been called, once and with the script, by the time the sandbox
\* execution has started; the result callback (when given) is called once, only
\* after the execution has resolved, with the string it resolved with, which is
\* also what the tool returns; when the execution rejects the result callback
\* is not called and the tool throws what the execution rejected with.
C27_CallbacksAroundExecution ==
  /\ tool.pc \in {"config", "ready"} => (pc = "init" /\ tool.events = <<>>)
  /\ tool.pc \in {"awaiting", "returned", "threw"} =>
       /\ pc # "init"
       /\ CallbackCalls("scriptMetadataCallback") =
            IF tool.callbacks.metadata
            THEN <<[cb |-> "scriptMetadataCallback", arg |-> [script |-> script]]>>
            ELSE <<>>
       /\ tool.events =
            CallbackCalls("scriptMetadataCallback") \o CallbackCalls("scriptResultCallback")
  /\ tool.pc # "returned" =>
       (CallbackCalls("scriptResultCallback") = <<>> /\ tool.returned = None)
  /\ tool.pc = "returned" =>
       /\ promise.state = "resolved"
       /\ tool.returned = Str(promise.value)
       /\ CallbackCalls("scriptResultCallback") =
            IF tool.callbacks.result
            THEN <<[cb |-> "scriptResultCallback", arg |-> Str(promise.value)]>>
            ELSE <<>>
  /\ tool.pc # "threw" => tool.thrown = None
  /\ tool.pc = "threw" =>
       /\ promise.state = "rejected"
       /\ tool.thrown = Err(promise.value)

\* Both callbacks were given, the script called a capability and returned, and
\* the tool has returned the text after both callbacks were called.
C27_Witness ==
  /\ tool.pc = "returned"
  /\ tool.callbacks = [metadata |-> TRUE, result |-> TRUE]
  /\ Len(tool.events) = 2
  /\ Len(executionLog) = 1
  /\ settledBy = "success"

====
